---- MODULE Spec2Model ----
(***************************************************************************)
(* Model of discord_message_extractor.py: the line scanner of pass 1, the  *)
(* per-container field extraction, the id-keyed message store, the         *)
(* reply-chain walk, and the per-user filter of pass 2.                    *)
(*                                                                         *)
(* Text is modelled as a sequence of one-character strings, so that        *)
(* strip_tags, normalize_spaces, split, lower, "in" and strptime are       *)
(* computed the way the code computes them.  "nbsp", "nnbsp" and "thinsp"  *)
(* stand for the single characters U+00A0, U+202F and U+2009.              *)
(* A Python Optional is a sequence of length 0 (None) or 1 (a value).      *)
(* An insertion-ordered dict is a sequence of [key, val] entries.          *)
(***************************************************************************)
EXTENDS Integers, Sequences, FiniteSets, TLC

VARIABLES
    infile,             \* the lines of the input file
    pos,                \* number of lines readline() has returned
    target_user_ids, date_from, date_to, search_term, exclude_replies,
    last_full_date, prev_author_id, prev_author_name, prev_author_color,
    group_buf, in_group, groups_seen, containers_seen,
    all_messages, user_data, statistics,
    pc,                 \* position in run(): "pass1", "pass2", "pass3", "export", "done"
    ui,                 \* index into target_user_ids of the loop in progress
    outcomes,           \* what run() reported per target user, in order
    flushed,            \* history: the arguments of process_group, in call order
    processed,          \* history: the containers given to process_container, with the record stored
    msg_id, chain, current_id, depth, chain_pc   \* locals of build_reply_chain_ids

cfgVars   == <<target_user_ids, date_from, date_to, search_term, exclude_replies>>
scanVars  == <<last_full_date, prev_author_id, prev_author_name, prev_author_color,
               group_buf, in_group, groups_seen, containers_seen, flushed, processed>>
chainVars == <<msg_id, chain, current_id, depth, chain_pc>>
vars == <<infile, pos, cfgVars, scanVars, all_messages, user_data, statistics,
          pc, ui, outcomes, chainVars>>

-----------------------------------------------------------------------------
(* Optional values *)

None == <<>>
Some(x) == <<x>>
IsSome(o) == Len(o) > 0
Get(o) == o[1]

-----------------------------------------------------------------------------
(* Python string operations on character sequences *)

Whitespace == {" ", "nbsp", "nnbsp", "thinsp"}

RECURSIVE lstrip(_)
lstrip(s) ==
    IF Len(s) > 0 /\ s[1] \in Whitespace THEN lstrip(Tail(s)) ELSE s

RECURSIVE rstrip(_)
rstrip(s) ==
    IF Len(s) > 0 /\ s[Len(s)] \in Whitespace THEN rstrip(SubSeq(s, 1, Len(s) - 1)) ELSE s

strip(s) == rstrip(lstrip(s))

\* index of the ">" closing a tag opened at s[1], 0 if "<[^>]+>" does not match there
TagEnd(s) ==
    IF Len(s) >= 3 /\ s[1] = "<" /\ s[2] # ">" /\ \E i \in 3..Len(s) : s[i] = ">"
    THEN CHOOSE i \in 3..Len(s) : s[i] = ">" /\ \A j \in 3..(i - 1) : s[j] # ">"
    ELSE 0

RECURSIVE strip_tags(_)
strip_tags(s) ==
    IF Len(s) = 0 THEN s
    ELSE IF TagEnd(s) > 0 THEN strip_tags(SubSeq(s, TagEnd(s) + 1, Len(s)))
    ELSE <<s[1]>> \o strip_tags(Tail(s))

normalize_spaces(s) ==
    strip([i \in 1..Len(s) |-> IF s[i] \in {"nnbsp", "nbsp", "thinsp"} THEN " " ELSE s[i]])

\* index of the first character of s that is in cs, Len(s) + 1 if there is none
FirstIn(s, cs) ==
    IF \E i \in 1..Len(s) : s[i] \in cs
    THEN CHOOSE i \in 1..Len(s) : s[i] \in cs /\ \A j \in 1..(i - 1) : s[j] \notin cs
    ELSE Len(s) + 1

\* str.split(): split on runs of whitespace, no empty pieces
RECURSIVE split(_)
split(s) ==
    LET t == lstrip(s)
        n == FirstIn(t, Whitespace)
    IN  IF Len(t) = 0 THEN <<>>
        ELSE <<SubSeq(t, 1, n - 1)>> \o split(SubSeq(t, n, Len(t)))

\* str.split(sep) for a one-character sep: empty pieces are kept
RECURSIVE split_on(_, _)
split_on(s, sep) ==
    LET n == FirstIn(s, {sep})
    IN  IF n > Len(s) THEN <<s>>
        ELSE <<SubSeq(s, 1, n - 1)>> \o split_on(SubSeq(s, n + 1, Len(s)), sep)

\* sub in s
Contains(sub, s) ==
    \E i \in 0..(Len(s) - Len(sub)) : SubSeq(s, i + 1, i + Len(sub)) = sub

Upper == <<"A","B","C","D","E","F","G","H","I","J","K","L","M",
           "N","O","P","Q","R","S","T","U","V","W","X","Y","Z">>
Lower == <<"a","b","c","d","e","f","g","h","i","j","k","l","m",
           "n","o","p","q","r","s","t","u","v","w","x","y","z">>

lower_char(c) ==
    IF \E i \in 1..26 : Upper[i] = c THEN Lower[CHOOSE i \in 1..26 : Upper[i] = c] ELSE c

lower(s) == [i \in 1..Len(s) |-> lower_char(s[i])]

startswith(s, p) == Len(s) >= Len(p) /\ SubSeq(s, 1, Len(p)) = p

-----------------------------------------------------------------------------
(* parse_timestamp: datetime.strptime against timestamp_formats, first     *)
(* format that matches wins.  strptime requires the whole string to match  *)
(* the format; a blank in the format matches one or more whitespace        *)
(* characters; a value outside the calendar raises, which the bare except  *)
(* turns into "try the next format".                                       *)

Digits == <<"0","1","2","3","4","5","6","7","8","9">>

IsDigit(c) == \E i \in 1..10 : Digits[i] = c

DigitVal(c) == (CHOOSE i \in 1..10 : Digits[i] = c) - 1

AllDigits(s) == \A i \in 1..Len(s) : IsDigit(s[i])

RECURSIVE ToInt(_)
ToInt(s) ==
    IF Len(s) = 0 THEN 0 ELSE ToInt(SubSeq(s, 1, Len(s) - 1)) * 10 + DigitVal(s[Len(s)])

\* a run of one or two digits whose value is in lo..hi
\* (%m and %I: 1..12, %H: 0..23, %M and %S: 0..59 once datetime() has validated)
NumField(s, lo, hi) ==
    Len(s) \in {1, 2} /\ AllDigits(s) /\ ToInt(s) \in lo..hi

\* %d: 3[0-1]|[1-2]\d|0[1-9]|[1-9]| [1-9]
DayField(s) ==
    \/ NumField(s, 1, 31)
    \/ Len(s) = 2 /\ s[1] = " " /\ IsDigit(s[2]) /\ s[2] # "0"

DayVal(s) == IF s[1] = " " THEN DigitVal(s[2]) ELSE ToInt(s)

\* %Y: \d\d\d\d, and datetime() rejects year 0
YearField(s) == Len(s) = 4 /\ AllDigits(s) /\ ToInt(s) >= 1

IsLeap(y) == (y % 4 = 0 /\ y % 100 # 0) \/ y % 400 = 0

DaysInMonth(y, m) ==
    IF m = 2 THEN (IF IsLeap(y) THEN 29 ELSE 28)
    ELSE IF m \in {4, 6, 9, 11} THEN 30 ELSE 31

datetime(y, mo, d, h, mi, sec) ==
    IF d <= DaysInMonth(y, mo)
    THEN Some([year |-> y, month |-> mo, day |-> d, hour |-> h, minute |-> mi, second |-> sec])
    ELSE None

\* the text after the date: whitespace, then exactly n whitespace-separated
\* tokens, the last one ending the string
TailTokens(r, n) ==
    /\ Len(r) > 0 /\ r[1] \in Whitespace /\ r[Len(r)] \notin Whitespace
    /\ Len(split(r)) = n

\* "%m/%d/%Y %I:%M %p"
strptime_12h(s) ==
    LET parts == split_on(s, "/")
        rest  == parts[3]
        r2    == SubSeq(rest, 5, Len(rest))
        toks  == split(r2)
        hm    == split_on(toks[1], ":")
        ap    == lower(toks[2])
        h12   == ToInt(hm[1])
        h     == IF ap = <<"a","m">> THEN (IF h12 = 12 THEN 0 ELSE h12)
                 ELSE (IF h12 = 12 THEN 12 ELSE h12 + 12)
    IN  IF /\ Len(parts) = 3
           /\ NumField(parts[1], 1, 12) /\ DayField(parts[2])
           /\ Len(rest) >= 4 /\ YearField(SubSeq(rest, 1, 4))
           /\ TailTokens(r2, 2)
           /\ Len(hm) = 2 /\ NumField(hm[1], 1, 12) /\ NumField(hm[2], 0, 59)
           /\ ap \in {<<"a","m">>, <<"p","m">>}
        THEN datetime(ToInt(SubSeq(rest, 1, 4)), ToInt(parts[1]), DayVal(parts[2]),
                      h, ToInt(hm[2]), 0)
        ELSE None

\* "%m/%d/%Y %H:%M"
strptime_24h(s) ==
    LET parts == split_on(s, "/")
        rest  == parts[3]
        r2    == SubSeq(rest, 5, Len(rest))
        hm    == split_on(split(r2)[1], ":")
    IN  IF /\ Len(parts) = 3
           /\ NumField(parts[1], 1, 12) /\ DayField(parts[2])
           /\ Len(rest) >= 4 /\ YearField(SubSeq(rest, 1, 4))
           /\ TailTokens(r2, 1)
           /\ Len(hm) = 2 /\ NumField(hm[1], 0, 23) /\ NumField(hm[2], 0, 59)
        THEN datetime(ToInt(SubSeq(rest, 1, 4)), ToInt(parts[1]), DayVal(parts[2]),
                      ToInt(hm[1]), ToInt(hm[2]), 0)
        ELSE None

\* "%Y-%m-%d %H:%M:%S"
strptime_iso(s) ==
    LET parts == split_on(s, "-")
        rest  == parts[3]
        dlen  == IF Len(rest) > 0 /\ rest[1] = " " THEN 2 ELSE FirstIn(rest, Whitespace) - 1
        dtok  == SubSeq(rest, 1, dlen)
        r2    == SubSeq(rest, dlen + 1, Len(rest))
        hms   == split_on(split(r2)[1], ":")
    IN  IF /\ Len(parts) = 3
           /\ YearField(parts[1]) /\ NumField(parts[2], 1, 12)
           /\ Len(rest) >= dlen /\ DayField(dtok)
           /\ TailTokens(r2, 1)
           /\ Len(hms) = 3 /\ NumField(hms[1], 0, 23) /\ NumField(hms[2], 0, 59)
           /\ NumField(hms[3], 0, 59)
        THEN datetime(ToInt(parts[1]), ToInt(parts[2]), DayVal(dtok),
                      ToInt(hms[1]), ToInt(hms[2]), ToInt(hms[3]))
        ELSE None

parse_timestamp(ts_str) ==
    IF IsSome(strptime_12h(ts_str)) THEN strptime_12h(ts_str)
    ELSE IF IsSome(strptime_24h(ts_str)) THEN strptime_24h(ts_str)
    ELSE strptime_iso(ts_str)

\* datetime "<"
DateKey(dt) == (dt.year * 12 + dt.month) * 31 + dt.day
TimeKey(dt) == (dt.hour * 60 + dt.minute) * 60 + dt.second
DtLess(a, b) ==
    DateKey(a) < DateKey(b) \/ (DateKey(a) = DateKey(b) /\ TimeKey(a) < TimeKey(b))

-----------------------------------------------------------------------------
(* Insertion-ordered dict: a sequence of [key, val] entries.  Assigning to *)
(* an existing key replaces the value where the key already is; a new key  *)
(* goes to the end.                                                        *)

Keys(d) == {d[i].key : i \in 1..Len(d)}

HasKey(d, k) == \E i \in 1..Len(d) : d[i].key = k

Lookup(d, k) == d[CHOOSE i \in 1..Len(d) : d[i].key = k].val

\* dict_set as dict.setdefault would do it: an existing key keeps its value
dict_set_keeps_first(d, k, v) ==
    IF HasKey(d, k) THEN d ELSE Append(d, [key |-> k, val |-> v])

\* dict_set moving an overwritten key to the end of the iteration order
dict_set_moves_to_end(d, k, v) ==
    Append(SelectSeq(d, LAMBDA e : e.key # k), [key |-> k, val |-> v])

dict_set(d, k, v) ==
    IF HasKey(d, k)
    THEN [i \in 1..Len(d) |-> IF d[i].key = k THEN [key |-> k, val |-> v] ELSE d[i]]
    ELSE Append(d, [key |-> k, val |-> v])

-----------------------------------------------------------------------------
(* Pass 1: process_container.                                              *)
(* A container is given by what each regular expression of __init__ finds  *)
(* in its text:                                                            *)
(*   msg_id      message_id_re on the opening marker   (Optional id)       *)
(*   reply_div   reply_div_re, and inside it reply_link_re                 *)
(*               (None, Some(None) or Some(Some(id)))                      *)
(*   author      author_re: [id, name]                 (Optional)          *)
(*   color       color_re                              (Optional)          *)
(*   full_ts, title_ts, short_ts   the three timestamp patterns            *)
(*   inner_span, content_div       the two content patterns                *)
(*   attachment  attachment_marker_re matches          (BOOLEAN)           *)
(*   href        attachment_href_re                    (Optional text)     *)
(*   img_alt     img_alt_re                            (Optional text)     *)

Unknown == <<"U","n","k","n","o","w","n">>

UNKNOWN_TIMESTAMP ==
    <<"U","N","K","N","O","W","N","_","T","I","M","E","S","T","A","M","P">>

\* html.unescape, for the character references of UnescapeTable
UnescapeTable ==
    << [ref |-> <<"&","a","m","p",";">>, char |-> "&"],
       [ref |-> <<"&","l","t",";">>,     char |-> "<"],
       [ref |-> <<"&","g","t",";">>,     char |-> ">"],
       [ref |-> <<"&","q","u","o","t",";">>, char |-> "\""] >>

RefAt(s) ==
    IF \E i \in 1..Len(UnescapeTable) : startswith(s, UnescapeTable[i].ref)
    THEN CHOOSE i \in 1..Len(UnescapeTable) : startswith(s, UnescapeTable[i].ref)
    ELSE 0

RECURSIVE unescape(_)
unescape(s) ==
    IF Len(s) = 0 THEN s
    ELSE IF RefAt(s) > 0
         THEN <<UnescapeTable[RefAt(s)].char>>
              \o unescape(SubSeq(s, Len(UnescapeTable[RefAt(s)].ref) + 1, Len(s)))
         ELSE <<s[1]>> \o unescape(Tail(s))

Last(q) == q[Len(q)]

\* lines 131-136: the first whitespace-separated token that contains "/"
date_part(ts_raw) ==
    LET parts == split(ts_raw)
    IN  IF \E i \in 1..Len(parts) : Contains(<<"/">>, parts[i])
        THEN Some(parts[CHOOSE i \in 1..Len(parts) :
                          /\ Contains(<<"/">>, parts[i])
                          /\ \A j \in 1..(i - 1) : ~Contains(<<"/">>, parts[j])])
        ELSE None

\* author_update with the author fields cleared by a container without marker
author_update_no_inheritance(st, cont) ==
    IF IsSome(cont.author)
    THEN [st EXCEPT
            !.prev_author_id = Some(Get(cont.author).id),
            !.prev_author_name =
                IF Len(Get(cont.author).name) > 0
                THEN Some(strip(strip_tags(Get(cont.author).name)))
                ELSE None,
            !.prev_author_color =
                IF IsSome(cont.color) THEN Some(strip(Get(cont.color)))
                ELSE st.prev_author_color]
    ELSE [st EXCEPT !.prev_author_id = None, !.prev_author_name = None]

\* author_update with the color cleared by an author marker that declares none
author_update_clears_color(st, cont) ==
    IF IsSome(cont.author)
    THEN [st EXCEPT
            !.prev_author_id = Some(Get(cont.author).id),
            !.prev_author_name =
                IF Len(Get(cont.author).name) > 0
                THEN Some(strip(strip_tags(Get(cont.author).name)))
                ELSE None,
            !.prev_author_color =
                IF IsSome(cont.color) THEN Some(strip(Get(cont.color))) ELSE None]
    ELSE st

\* lines 114-120: the scan state's author fields after this container
author_update(st, cont) ==
    IF IsSome(cont.author)
    THEN [st EXCEPT
            !.prev_author_id = Some(Get(cont.author).id),
            !.prev_author_name =
                IF Len(Get(cont.author).name) > 0
                THEN Some(strip(strip_tags(Get(cont.author).name)))
                ELSE None,
            !.prev_author_color =
                IF IsSome(cont.color) THEN Some(strip(Get(cont.color)))
                ELSE st.prev_author_color]
    ELSE st

\* timestamp_of with the short time never completed by the remembered date
timestamp_of_no_completion(st, cont) ==
    IF IsSome(cont.full_ts)
    THEN Some(normalize_spaces(strip_tags(Get(cont.full_ts))))
    ELSE IF IsSome(cont.title_ts)
    THEN Some(normalize_spaces(strip_tags(Get(cont.title_ts))))
    ELSE IF IsSome(cont.short_ts)
    THEN Some(normalize_spaces(strip_tags(Get(cont.short_ts))))
    ELSE None

\* timestamp_of with the title attribute tried before the link text
timestamp_of_title_first(st, cont) ==
    IF IsSome(cont.title_ts)
    THEN Some(normalize_spaces(strip_tags(Get(cont.title_ts))))
    ELSE IF IsSome(cont.full_ts)
    THEN Some(normalize_spaces(strip_tags(Get(cont.full_ts))))
    ELSE IF IsSome(cont.short_ts)
    THEN LET short == normalize_spaces(strip_tags(Get(cont.short_ts)))
         IN  IF IsSome(st.last_full_date) /\ Len(Get(st.last_full_date)) > 0
             THEN Some(Get(st.last_full_date) \o <<" ">> \o short)
             ELSE Some(short)
    ELSE None

\* lines 125-149: ts, None when no pattern matches
timestamp_of(st, cont) ==
    IF IsSome(cont.full_ts)
    THEN Some(normalize_spaces(strip_tags(Get(cont.full_ts))))
    ELSE IF IsSome(cont.title_ts)
    THEN Some(normalize_spaces(strip_tags(Get(cont.title_ts))))
    ELSE IF IsSome(cont.short_ts)
    THEN LET short == normalize_spaces(strip_tags(Get(cont.short_ts)))
         IN  IF IsSome(st.last_full_date) /\ Len(Get(st.last_full_date)) > 0
             THEN Some(Get(st.last_full_date) \o <<" ">> \o short)
             ELSE Some(short)
    ELSE None

\* lines 128-138: last_full_date after this container
date_update(st, cont) ==
    IF IsSome(cont.full_ts)
       /\ IsSome(date_part(normalize_spaces(strip_tags(Get(cont.full_ts)))))
    THEN date_part(normalize_spaces(strip_tags(Get(cont.full_ts))))
    ELSE st.last_full_date

AttachmentPrefix == <<"[","A","t","t","a","c","h","m","e","n","t">>
ImagePrefix == <<"[","I","m","a","g","e","/","E","m","o","j","i",":"," ">>

\* lines 151-178
content_of(cont) ==
    LET content_raw ==
            IF IsSome(cont.inner_span) THEN Get(cont.inner_span)
            ELSE IF IsSome(cont.content_div) THEN Get(cont.content_div)
            ELSE <<>>
        content_text == strip(strip_tags(content_raw))
        filename == split_on(Last(split_on(Get(cont.href), "/")), "?")[1]
        placeholder ==
            IF Len(content_text) > 0 THEN content_text
            ELSE IF cont.attachment
            THEN IF IsSome(cont.href) /\ Len(Get(cont.href)) > 0
                 THEN AttachmentPrefix \o <<":", " ">> \o filename \o <<"]">>
                 ELSE AttachmentPrefix \o <<"]">>
            ELSE IF IsSome(cont.img_alt)
            THEN ImagePrefix \o strip(Get(cont.img_alt)) \o <<"]">>
            ELSE content_text
    IN  unescape(placeholder)

\* process_container with the id test after the author and timestamp extraction
process_container_late_id_check(st, cont) ==
    LET seen == [st EXCEPT !.containers_seen = @ + 1]
        st1 == author_update(seen, cont)
    IN  IF ~IsSome(cont.msg_id)
        THEN [st1 EXCEPT !.last_full_date = date_update(st1, cont),
                         !.processed = Append(@, [cont |-> cont, rec |-> None])]
        ELSE
        LET current_msg_id == Get(cont.msg_id)
            reply_msg_id == IF IsSome(cont.reply_div) THEN Get(cont.reply_div) ELSE None
            ts == timestamp_of(st1, cont)
            rec == [ user_id   |-> IF IsSome(st1.prev_author_id)
                                   THEN Get(st1.prev_author_id) ELSE "",
                     username  |-> IF IsSome(st1.prev_author_name)
                                      /\ Len(Get(st1.prev_author_name)) > 0
                                   THEN Get(st1.prev_author_name) ELSE Unknown,
                     color     |-> st1.prev_author_color,
                     content   |-> content_of(cont),
                     timestamp |-> IF IsSome(ts) /\ Len(Get(ts)) > 0
                                   THEN Get(ts) ELSE UNKNOWN_TIMESTAMP,
                     reply_to_msg_id |-> reply_msg_id,
                     message_id |-> current_msg_id ]
        IN  [st1 EXCEPT
                !.last_full_date = date_update(st1, cont),
                !.all_messages = dict_set(@, current_msg_id, rec),
                !.processed = Append(@, [cont |-> cont, rec |-> Some(rec)])]

\* lines 94-188.  st is the state the closure shares with extract_all_messages.
process_container(st, cont) ==
    LET seen == [st EXCEPT !.containers_seen = @ + 1]
    IN  IF ~IsSome(cont.msg_id)
        THEN [seen EXCEPT !.processed = Append(@, [cont |-> cont, rec |-> None])]
        ELSE
        LET current_msg_id == Get(cont.msg_id)
            reply_msg_id == IF IsSome(cont.reply_div) THEN Get(cont.reply_div) ELSE None
            st1 == author_update(seen, cont)
            ts == timestamp_of(st1, cont)
            rec == [ user_id   |-> IF IsSome(st1.prev_author_id)
                                   THEN Get(st1.prev_author_id) ELSE "",
                     username  |-> IF IsSome(st1.prev_author_name)
                                      /\ Len(Get(st1.prev_author_name)) > 0
                                   THEN Get(st1.prev_author_name) ELSE Unknown,
                     color     |-> st1.prev_author_color,
                     content   |-> content_of(cont),
                     timestamp |-> IF IsSome(ts) /\ Len(Get(ts)) > 0
                                   THEN Get(ts) ELSE UNKNOWN_TIMESTAMP,
                     reply_to_msg_id |-> reply_msg_id,
                     message_id |-> current_msg_id ]
        IN  [st1 EXCEPT
                !.last_full_date = date_update(st1, cont),
                !.all_messages = dict_set(@, current_msg_id, rec),
                !.processed = Append(@, [cont |-> cont, rec |-> Some(rec)])]

\* ''.join(group_buf) followed by container_re.finditer: the containers of the
\* buffered lines, in text order
RECURSIVE finditer(_)
finditer(buf) ==
    IF Len(buf) = 0 THEN <<>> ELSE buf[1].conts \o finditer(Tail(buf))

RECURSIVE process_all(_, _)
process_all(st, conts) ==
    IF Len(conts) = 0 THEN st
    ELSE process_all(process_container(st, conts[1]), Tail(conts))

\* lines 190-195
process_group(st, buf) ==
    process_all([st EXCEPT !.groups_seen = @ + 1, !.flushed = Append(@, buf)],
                finditer(buf))

-----------------------------------------------------------------------------
(* Pass 2: should_include_message, build_reply_chain_ids,                  *)
(* filter_and_extract_users.                                               *)

\* line 298: the default of the max_depth parameter, the only value passed
max_depth == 5

\* Python truth value of an Optional text
Truthy(o) == IsSome(o) /\ Len(Get(o)) > 0

\* should_include_message with an unparseable timestamp failing the date check
should_include_message_unparsed_fails(msg) ==
    IF exclude_replies /\ IsSome(msg.reply_to_msg_id) THEN FALSE
    ELSE IF Truthy(search_term) /\ ~Contains(Get(search_term), lower(msg.content))
    THEN FALSE
    ELSE IF Truthy(date_from) \/ Truthy(date_to)
    THEN LET dt == parse_timestamp(msg.timestamp)
             from_dt == parse_timestamp(Get(date_from))
             to_dt == parse_timestamp(Get(date_to))
         IN  IF ~IsSome(dt) THEN FALSE
             ELSE IF Truthy(date_from) /\ IsSome(from_dt) /\ DtLess(Get(dt), Get(from_dt))
             THEN FALSE
             ELSE IF Truthy(date_to) /\ IsSome(to_dt) /\ DtLess(Get(to_dt), Get(dt))
             THEN FALSE
             ELSE TRUE
    ELSE TRUE

\* should_include_message excluding a reply only when its target is in the store
should_include_message_resolved_only(msg) ==
    IF /\ exclude_replies /\ IsSome(msg.reply_to_msg_id)
       /\ HasKey(all_messages, Get(msg.reply_to_msg_id))
    THEN FALSE
    ELSE IF Truthy(search_term) /\ ~Contains(Get(search_term), lower(msg.content))
    THEN FALSE
    ELSE IF Truthy(date_from) \/ Truthy(date_to)
    THEN LET dt == parse_timestamp(msg.timestamp)
             from_dt == parse_timestamp(Get(date_from))
             to_dt == parse_timestamp(Get(date_to))
         IN  IF ~IsSome(dt) THEN TRUE
             ELSE IF Truthy(date_from) /\ IsSome(from_dt) /\ DtLess(Get(dt), Get(from_dt))
             THEN FALSE
             ELSE IF Truthy(date_to) /\ IsSome(to_dt) /\ DtLess(Get(to_dt), Get(dt))
             THEN FALSE
             ELSE TRUE
    ELSE TRUE

\* lines 221-240
should_include_message(msg) ==
    IF exclude_replies /\ IsSome(msg.reply_to_msg_id) THEN FALSE
    ELSE IF Truthy(search_term) /\ ~Contains(Get(search_term), lower(msg.content))
    THEN FALSE
    ELSE IF Truthy(date_from) \/ Truthy(date_to)
    THEN LET dt == parse_timestamp(msg.timestamp)
             from_dt == parse_timestamp(Get(date_from))
             to_dt == parse_timestamp(Get(date_to))
         IN  IF ~IsSome(dt) THEN TRUE
             ELSE IF Truthy(date_from) /\ IsSome(from_dt) /\ DtLess(Get(dt), Get(from_dt))
             THEN FALSE
             ELSE IF Truthy(date_to) /\ IsSome(to_dt) /\ DtLess(Get(to_dt), Get(dt))
             THEN FALSE
             ELSE TRUE
    ELSE TRUE

\* chain_continues with the depth test off by one
chain_continues_one_more(store, loc) ==
    /\ IsSome(loc.current_id)
    /\ HasKey(store, Get(loc.current_id))
    /\ loc.depth <= max_depth

\* line 303: the loop condition, on the locals [chain, current_id, depth]
chain_continues(store, loc) ==
    /\ IsSome(loc.current_id)
    /\ HasKey(store, Get(loc.current_id))
    /\ loc.depth < max_depth

\* chain_step building the chain farthest-first
chain_step_prepends(store, loc) ==
    [ chain      |-> <<Get(loc.current_id)>> \o loc.chain,
      current_id |-> Lookup(store, Get(loc.current_id)).reply_to_msg_id,
      depth      |-> loc.depth + 1 ]

\* lines 304-306: the loop body
chain_step(store, loc) ==
    [ chain      |-> Append(loc.chain, Get(loc.current_id)),
      current_id |-> Lookup(store, Get(loc.current_id)).reply_to_msg_id,
      depth      |-> loc.depth + 1 ]

RECURSIVE chain_loop(_, _)
chain_loop(store, loc) ==
    IF chain_continues(store, loc) THEN chain_loop(store, chain_step(store, loc))
    ELSE loc.chain

\* lines 298-308
build_reply_chain_ids(store, start) ==
    chain_loop(store, [chain |-> <<>>, current_id |-> Some(start), depth |-> 0])

\* lines 246-251
EmptyBundle ==
    [ messages |-> <<>>, replied_to_users |-> <<>>, first_timestamp |-> None,
      last_timestamp |-> None, username |-> None, color |-> None ]

\* filter_step tallying a reply to the user's own message like any other
filter_step_counts_self(acc, user_id, entry) ==
    LET msg == entry.val
        first == ~Truthy(acc.username)
        resolvable == /\ IsSome(msg.reply_to_msg_id)
                      /\ HasKey(all_messages, Get(msg.reply_to_msg_id))
        replied_msg == Lookup(all_messages, Get(msg.reply_to_msg_id))
        reply_user_id == replied_msg.user_id
        count == IF HasKey(acc.replied_to_users, reply_user_id)
                 THEN Lookup(acc.replied_to_users, reply_user_id).count ELSE 0
    IN  IF msg.user_id # user_id THEN acc
        ELSE IF ~should_include_message(msg) THEN acc
        ELSE [ username |-> IF first THEN Some(msg.username) ELSE acc.username,
               color |-> IF first THEN msg.color ELSE acc.color,
               first_timestamp |-> IF first THEN Some(msg.timestamp)
                                   ELSE acc.first_timestamp,
               last_timestamp |-> Some(msg.timestamp),
               replied_to_users |->
                   IF resolvable
                   THEN dict_set(acc.replied_to_users, reply_user_id,
                                 [name |-> replied_msg.username, count |-> count + 1])
                   ELSE acc.replied_to_users,
               messages |-> Append(acc.messages,
                   [ timestamp |-> msg.timestamp,
                     content |-> msg.content,
                     reply_to_msg_id |-> msg.reply_to_msg_id,
                     reply_chain_ids |->
                         IF resolvable
                         THEN build_reply_chain_ids(all_messages, Get(msg.reply_to_msg_id))
                         ELSE <<>>,
                     message_id |-> entry.key ]) ]

\* lines 254-285: one iteration of the loop over all_messages.items()
filter_step(acc, user_id, entry) ==
    LET msg == entry.val
        first == ~Truthy(acc.username)
        resolvable == /\ IsSome(msg.reply_to_msg_id)
                      /\ HasKey(all_messages, Get(msg.reply_to_msg_id))
        replied_msg == Lookup(all_messages, Get(msg.reply_to_msg_id))
        reply_user_id == replied_msg.user_id
        count == IF HasKey(acc.replied_to_users, reply_user_id)
                 THEN Lookup(acc.replied_to_users, reply_user_id).count ELSE 0
    IN  IF msg.user_id # user_id THEN acc
        ELSE IF ~should_include_message(msg) THEN acc
        ELSE [ username |-> IF first THEN Some(msg.username) ELSE acc.username,
               color |-> IF first THEN msg.color ELSE acc.color,
               first_timestamp |-> IF first THEN Some(msg.timestamp)
                                   ELSE acc.first_timestamp,
               last_timestamp |-> Some(msg.timestamp),
               replied_to_users |->
                   IF resolvable /\ reply_user_id # user_id
                   THEN dict_set(acc.replied_to_users, reply_user_id,
                                 [name |-> replied_msg.username, count |-> count + 1])
                   ELSE acc.replied_to_users,
               messages |-> Append(acc.messages,
                   [ timestamp |-> msg.timestamp,
                     content |-> msg.content,
                     reply_to_msg_id |-> msg.reply_to_msg_id,
                     reply_chain_ids |->
                         IF resolvable
                         THEN build_reply_chain_ids(all_messages, Get(msg.reply_to_msg_id))
                         ELSE <<>>,
                     message_id |-> entry.key ]) ]

RECURSIVE filter_loop(_, _, _)
filter_loop(acc, user_id, entries) ==
    IF Len(entries) = 0 THEN acc
    ELSE filter_loop(filter_step(acc, user_id, entries[1]), user_id, Tail(entries))

\* lines 287-294
bundle_of(acc) ==
    [ username |-> IF Truthy(acc.username) THEN Get(acc.username) ELSE Unknown,
      color |-> IF Truthy(acc.color) THEN Get(acc.color) ELSE <<"N","/","A">>,
      messages |-> acc.messages,
      replied_to_users |-> acc.replied_to_users,
      first_timestamp |-> acc.first_timestamp,
      last_timestamp |-> acc.last_timestamp ]

-----------------------------------------------------------------------------
(* Pass 3: calculate_statistics.                                           *)

RECURSIVE count_replies(_)
count_replies(messages) ==
    IF Len(messages) = 0 THEN 0
    ELSE (IF IsSome(messages[1].reply_to_msg_id) THEN 1 ELSE 0)
         + count_replies(Tail(messages))

\* ' '.join(texts)
RECURSIVE join(_)
join(texts) ==
    IF Len(texts) = 0 THEN <<>>
    ELSE IF Len(texts) = 1 THEN texts[1]
    ELSE texts[1] \o <<" ">> \o join(Tail(texts))

\* lines 323-327: the contents, looked up in the store, that do not start with "["
RECURSIVE counted_contents(_)
counted_contents(messages) ==
    IF Len(messages) = 0 THEN <<>>
    ELSE LET content == Lookup(all_messages, messages[1].message_id).content
         IN  (IF startswith(content, <<"[">>) THEN <<>> ELSE <<content>>)
             \o counted_contents(Tail(messages))

RECURSIVE gcd(_, _)
gcd(a, b) == IF b = 0 THEN a ELSE gcd(b, a % b)

\* a / b for b > 0: the quotient as a fraction in lowest terms.  For the small
\* operands of the model the float results are equal exactly when the fractions are.
true_div(a, b) == [num |-> a \div gcd(a, b), den |-> b \div gcd(a, b)]

\* Python's integer 0, the value of the two averages when there is nothing to divide by
Zero == [num |-> 0, den |-> 1]

\* lines 332-336
RECURSIVE timestamps_parsed(_)
timestamps_parsed(messages) ==
    IF Len(messages) = 0 THEN <<>>
    ELSE parse_timestamp(messages[1].timestamp) \o timestamps_parsed(Tail(messages))

\* Counter(iterable): a dict from key to count, keys in order of first occurrence
RECURSIVE Counter(_, _)
Counter(d, keys) ==
    IF Len(keys) = 0 THEN d
    ELSE Counter(dict_set(d, keys[1],
                          IF HasKey(d, keys[1]) THEN Lookup(d, keys[1]) + 1 ELSE 1),
                 Tail(keys))

\* most_common with the last of the keys of highest count
most_common_last(d) ==
    IF Len(d) = 0 THEN None
    ELSE Some(d[CHOOSE i \in 1..Len(d) :
                  /\ \A j \in 1..Len(d) : d[j].val <= d[i].val
                  /\ \A j \in (i + 1)..Len(d) : d[j].val < d[i].val])

\* lines 350-351: most_common(1)[0] if the counter is not empty else None.
\* most_common(1) is heapq.nlargest(1, items, key=count), which is max(): the
\* first item, in the counter's order, among those of highest count.
most_common(d) ==
    IF Len(d) = 0 THEN None
    ELSE Some(d[CHOOSE i \in 1..Len(d) :
                  /\ \A j \in 1..Len(d) : d[j].val <= d[i].val
                  /\ \A j \in 1..(i - 1) : d[j].val < d[i].val])

DayNames ==
    <<"Sunday", "Monday", "Tuesday", "Wednesday", "Thursday", "Friday", "Saturday">>

\* days from 0001-01-01 (day 1) to the given date in the proleptic Gregorian
\* calendar, as datetime.toordinal()
RECURSIVE DaysBeforeMonth(_, _)
DaysBeforeMonth(y, m) ==
    IF m = 1 THEN 0 ELSE DaysBeforeMonth(y, m - 1) + DaysInMonth(y, m - 1)

toordinal(dt) ==
    LET y == dt.year - 1
    IN  y * 365 + (y \div 4) - (y \div 100) + (y \div 400)
        + DaysBeforeMonth(dt.year, dt.month) + dt.day

\* line 339: dt.strftime('%A') (0001-01-01 was a Monday)
day_name(dt) == DayNames[(toordinal(dt) % 7) + 1]

RECURSIVE sum_chain_lengths(_)
sum_chain_lengths(messages) ==
    IF Len(messages) = 0 THEN 0
    ELSE Len(messages[1].reply_chain_ids) + sum_chain_lengths(Tail(messages))

\* lines 319-355
statistics_of(data) ==
    LET messages == data.messages
        total_messages == Len(messages)
        reply_count == count_replies(messages)
        words == split(join(counted_contents(messages)))
        total_words == Len(words)
        parsed == timestamps_parsed(messages)
        hour_distribution == Counter(<<>>, [i \in 1..Len(parsed) |-> parsed[i].hour])
        day_distribution == Counter(<<>>, [i \in 1..Len(parsed) |-> day_name(parsed[i])])
        with_chain == SelectSeq(messages, LAMBDA x : Len(x.reply_chain_ids) > 0)
    IN  [ total_messages |-> total_messages,
          original_messages |-> total_messages - reply_count,
          replies |-> reply_count,
          total_words |-> total_words,
          avg_message_length |-> IF total_messages > 0
                                 THEN true_div(total_words, total_messages) ELSE Zero,
          most_active_hour |-> most_common(hour_distribution),
          most_active_day |-> most_common(day_distribution),
          avg_reply_depth |-> IF Len(with_chain) > 0
                              THEN true_div(sum_chain_lengths(with_chain), Len(with_chain))
                              ELSE Zero,
          hour_distribution |-> hour_distribution,
          day_distribution |-> day_distribution ]

\* lines 313-317, 344: users without messages get no statistics entry
RECURSIVE statistics_loop(_, _)
statistics_loop(stats, items) ==
    IF Len(items) = 0 THEN stats
    ELSE statistics_loop(
            IF Len(items[1].val.messages) = 0 THEN stats
            ELSE dict_set(stats, items[1].key, statistics_of(items[1].val)),
            Tail(items))

-----------------------------------------------------------------------------
(* Actions                                                                 *)

\* the variables process_container and process_group share with the scanner
ScanState ==
    [ last_full_date |-> last_full_date, prev_author_id |-> prev_author_id,
      prev_author_name |-> prev_author_name, prev_author_color |-> prev_author_color,
      groups_seen |-> groups_seen, containers_seen |-> containers_seen,
      all_messages |-> all_messages, flushed |-> flushed, processed |-> processed ]

SetScanState(st) ==
    /\ last_full_date' = st.last_full_date
    /\ prev_author_id' = st.prev_author_id
    /\ prev_author_name' = st.prev_author_name
    /\ prev_author_color' = st.prev_author_color
    /\ groups_seen' = st.groups_seen
    /\ containers_seen' = st.containers_seen
    /\ all_messages' = st.all_messages
    /\ flushed' = st.flushed
    /\ processed' = st.processed

\* ReadLine without the reset of the buffer after a flush
ReadLine_keeps_buffer ==
    /\ pc = "pass1"
    /\ pos < Len(infile)
    /\ LET line == infile[pos + 1]
           flush == line.marker /\ in_group /\ Len(group_buf) > 0
       IN  /\ SetScanState(IF flush THEN process_group(ScanState, group_buf)
                           ELSE ScanState)
           /\ in_group' = (in_group \/ line.marker)
           /\ group_buf' = IF in_group \/ line.marker THEN Append(group_buf, line)
                           ELSE group_buf
    /\ pos' = pos + 1
    /\ UNCHANGED <<infile, cfgVars, user_data, statistics, pc, ui, outcomes, chainVars>>

\* lines 199, 205-214: readline() returns a line
ReadLine ==
    /\ pc = "pass1"
    /\ pos < Len(infile)
    /\ LET line == infile[pos + 1]
           flush == line.marker /\ in_group /\ Len(group_buf) > 0
           buf == IF flush THEN <<>> ELSE group_buf
       IN  /\ SetScanState(IF flush THEN process_group(ScanState, group_buf)
                           ELSE ScanState)
           /\ in_group' = (in_group \/ line.marker)
           /\ group_buf' = IF in_group \/ line.marker THEN Append(buf, line) ELSE buf
    /\ pos' = pos + 1
    /\ UNCHANGED <<infile, cfgVars, user_data, statistics, pc, ui, outcomes, chainVars>>

\* ReadEof without the flush of the pending group
ReadEof_no_flush ==
    /\ pc = "pass1"
    /\ pos = Len(infile)
    /\ SetScanState(ScanState)
    /\ pc' = "pass2"
    /\ ui' = 1
    /\ UNCHANGED <<infile, pos, cfgVars, group_buf, in_group, user_data, statistics,
                   outcomes, chainVars>>

\* lines 199-203: readline() returns the empty string
ReadEof ==
    /\ pc = "pass1"
    /\ pos = Len(infile)
    /\ SetScanState(IF in_group /\ Len(group_buf) > 0
                    THEN process_group(ScanState, group_buf) ELSE ScanState)
    /\ pc' = "pass2"
    /\ ui' = 1
    /\ UNCHANGED <<infile, pos, cfgVars, group_buf, in_group, user_data, statistics,
                   outcomes, chainVars>>

\* lines 245-296: one iteration of the loop over target_user_ids
FilterUser ==
    /\ pc = "pass2"
    /\ ui <= Len(target_user_ids)
    /\ user_data' = dict_set(user_data, target_user_ids[ui],
                        bundle_of(filter_loop(EmptyBundle, target_user_ids[ui],
                                              all_messages)))
    /\ ui' = ui + 1
    /\ pc' = IF ui = Len(target_user_ids) THEN "pass3" ELSE "pass2"
    /\ UNCHANGED <<infile, pos, cfgVars, scanVars, all_messages, statistics, outcomes,
                   chainVars>>

\* lines 310-355
CalculateStatistics ==
    /\ pc = "pass3"
    /\ statistics' = statistics_loop(statistics, user_data)
    /\ pc' = "export"
    /\ ui' = 1
    /\ UNCHANGED <<infile, pos, cfgVars, scanVars, all_messages, user_data, outcomes,
                   chainVars>>

\* lines 680-699: one iteration of the export loop of run()
ExportUser ==
    /\ pc = "export"
    /\ ui <= Len(target_user_ids)
    /\ outcomes' = Append(outcomes,
           IF ~HasKey(user_data, target_user_ids[ui])
           THEN [user_id |-> target_user_ids[ui], result |-> "no data", messages |-> <<>>]
           ELSE [user_id |-> target_user_ids[ui], result |-> "exported",
                 messages |-> Lookup(user_data, target_user_ids[ui]).messages])
    /\ ui' = ui + 1
    /\ pc' = IF ui = Len(target_user_ids) THEN "done" ELSE "export"
    /\ UNCHANGED <<infile, pos, cfgVars, scanVars, all_messages, user_data, statistics,
                   chainVars>>

Next == ReadLine \/ ReadEof \/ FilterUser \/ CalculateStatistics \/ ExportUser

\* line 303-306: one iteration of the while loop of build_reply_chain_ids
ChainLoop ==
    /\ chain_pc = "loop"
    /\ chain_continues(all_messages,
                       [chain |-> chain, current_id |-> current_id, depth |-> depth])
    /\ LET loc == chain_step(all_messages,
                       [chain |-> chain, current_id |-> current_id, depth |-> depth])
       IN  /\ chain' = loc.chain
           /\ current_id' = loc.current_id
           /\ depth' = loc.depth
    /\ UNCHANGED <<infile, pos, cfgVars, scanVars, all_messages, user_data, statistics,
                   pc, ui, outcomes, msg_id, chain_pc>>

\* line 308: the loop condition is false, the chain is returned
ChainReturn ==
    /\ chain_pc = "loop"
    /\ ~chain_continues(all_messages,
                        [chain |-> chain, current_id |-> current_id, depth |-> depth])
    /\ chain_pc' = "returned"
    /\ UNCHANGED <<infile, pos, cfgVars, scanVars, all_messages, user_data, statistics,
                   pc, ui, outcomes, msg_id, chain, current_id, depth>>

NextChain == ChainLoop \/ ChainReturn

-----------------------------------------------------------------------------
(* Inputs                                                                  *)

MaxLines == 3       \* lines of the input file, author and group scenarios

EmptyContainer ==
    [ msg_id |-> None, reply_div |-> None, author |-> None, color |-> None,
      full_ts |-> None, title_ts |-> None, short_ts |-> None,
      inner_span |-> None, content_div |-> None,
      attachment |-> FALSE, href |-> None, img_alt |-> None ]

\* a line: whether group_start_re matches it, and the containers that start in it
LinesOver(conts) ==
    [marker : BOOLEAN, conts : {<<>>} \cup {<<c>> : c \in conts}]

FilesOver(lines, n) == UNION {[1..k -> lines] : k \in 0..n}

\* " <b>Al</b>"
NameAl == <<" ","<","b",">","A","l","<","/","b",">">>

AuthorMarkers ==
    { None, Some([id |-> "7", name |-> NameAl]), Some([id |-> "8", name |-> <<>>]) }

AuthorContainers ==
    { [EmptyContainer EXCEPT !.msg_id = i, !.author = a] :
        i \in {None, Some("1"), Some("2")}, a \in AuthorMarkers }

\* the state when extract_all_messages enters its read loop (lines 50-52, 80-90)
InitRun ==
    /\ pos = 0
    /\ last_full_date = None
    /\ prev_author_id = None
    /\ prev_author_name = None
    /\ prev_author_color = None
    /\ group_buf = <<>>
    /\ in_group = FALSE
    /\ groups_seen = 0
    /\ containers_seen = 0
    /\ all_messages = <<>>
    /\ user_data = <<>>
    /\ statistics = <<>>
    /\ pc = "pass1"
    /\ ui = 1
    /\ outcomes = <<>>
    /\ flushed = <<>>
    /\ processed = <<>>
    /\ msg_id = ""
    /\ chain = <<>>
    /\ current_id = None
    /\ depth = 0
    /\ chain_pc = "idle"

NoFilters ==
    /\ date_from = None
    /\ date_to = None
    /\ search_term = None
    /\ exclude_replies = FALSE

Init ==
    /\ infile \in FilesOver(LinesOver(AuthorContainers), MaxLines)
    /\ target_user_ids = <<"7">>
    /\ NoFilters
    /\ InitRun

Spec == Init /\ [][Next]_vars

-----------------------------------------------------------------------------
(* Properties of the scan (Spec)                                           *)

\* the containers the scan has given to process_container so far
Seen(i) == processed[i].cont

\* the last container processed with the given id
LastWithId(id) ==
    CHOOSE i \in 1..Len(processed) :
        /\ Seen(i).msg_id = Some(id)
        /\ \A j \in (i + 1)..Len(processed) : Seen(j).msg_id # Some(id)

\* the run head of container i: the most recent container at or before i that
\* has a parsable id and an explicit author marker, 0 if there is none
RunHead(i) ==
    IF \E j \in 1..i : IsSome(Seen(j).msg_id) /\ IsSome(Seen(j).author)
    THEN CHOOSE j \in 1..i :
            /\ IsSome(Seen(j).msg_id) /\ IsSome(Seen(j).author)
            /\ \A k \in (j + 1)..i : ~(IsSome(Seen(k).msg_id) /\ IsSome(Seen(k).author))
    ELSE 0

\* the author name a run head shows: its marker's text without tags and
\* surrounding blanks, "Unknown" when that is empty
DisplayName(marker) ==
    IF Len(strip(strip_tags(marker.name))) = 0 THEN Unknown
    ELSE strip(strip_tags(marker.name))

\* C1: every stored record has the author id and name of its run head (the most
\* recent container at or before it, with a parsable id, that carried an author
\* marker), within and across groups; with no run head the id is the empty
\* string and the name is "Unknown".
C1_AuthorInherited ==
    \A e \in 1..Len(all_messages) :
        LET i == LastWithId(all_messages[e].key)
            rec == all_messages[e].val
        IN  IF RunHead(i) = 0
            THEN rec.user_id = "" /\ rec.username = Unknown
            ELSE /\ rec.user_id = Get(Seen(RunHead(i)).author).id
                 /\ rec.username = DisplayName(Get(Seen(RunHead(i)).author))
                 /\ rec.username = Get(processed[RunHead(i)].rec).username

\* a record stored for a container without author marker, in a later group than
\* its run head, with a skipped (id-less) container carrying a marker in between
C1_Witness ==
    /\ pc = "done"
    /\ Len(flushed) >= 2
    /\ \E e \in 1..Len(all_messages) :
        LET i == LastWithId(all_messages[e].key)
        IN  /\ ~IsSome(Seen(i).author)
            /\ RunHead(i) > 0
            /\ RunHead(i) < i - 1
            /\ IsSome(Seen(i - 1).author) /\ ~IsSome(Seen(i - 1).msg_id)

\* the groups of a line sequence: each starts at a group-marker line and ends
\* just before the next group-marker line or at the end
GroupsOf(lines) ==
    LET starts == {i \in 1..Len(lines) : lines[i].marker}
        EndOf(i) == IF \E j \in starts : j > i
                    THEN (CHOOSE j \in starts : j > i /\ \A k \in starts : k > i => j <= k) - 1
                    ELSE Len(lines)
        RECURSIVE From(_)
        From(i) == IF i > Len(lines) THEN <<>>
                   ELSE <<SubSeq(lines, i, EndOf(i))>> \o From(EndOf(i) + 1)
    IN  IF starts = {} THEN <<>>
        ELSE From(CHOOSE i \in starts : \A k \in starts : i <= k)

RECURSIVE ContainersOf(_)
ContainersOf(groups) ==
    IF Len(groups) = 0 THEN <<>>
    ELSE finditer(groups[1]) \o ContainersOf(Tail(groups))

\* C3: the groups handed to process_group are, in document order and once each,
\* the groups of the lines read so far except the one still being buffered; a
\* marker line flushes the group before it and then starts the buffer; after end
\* of stream every group of the file has been flushed; lines before the first
\* marker line are in no flushed group.
C3_GroupsFlushedOnceInOrder ==
    LET groups == GroupsOf(SubSeq(infile, 1, pos))
    IN  /\ flushed = IF pc = "pass1" THEN SubSeq(groups, 1, Len(groups) - 1) ELSE groups
        /\ groups_seen = Len(flushed)
        /\ [i \in 1..Len(processed) |-> Seen(i)] = ContainersOf(flushed)
        /\ (pc = "pass1" /\ pos > 0 /\ infile[pos].marker) => group_buf = <<infile[pos]>>
        /\ pc # "pass1" => pos = Len(infile)

\* a finished scan of a file whose first line precedes the first marker and
\* holds a container, with two groups flushed
C3_Witness ==
    /\ pc = "done"
    /\ Len(infile) >= 3
    /\ ~infile[1].marker /\ Len(infile[1].conts) > 0
    /\ Len(flushed) = 2
    /\ Len(processed) > 0

\* C4: the store holds one record per distinct parsable container id, each
\* record's message_id is its key, and the record of an id is the one extracted
\* from the last container with that id.
C4_OneRecordPerIdLastWins ==
    /\ Keys(all_messages) =
         {Get(Seen(i).msg_id) : i \in {j \in 1..Len(processed) : IsSome(Seen(j).msg_id)}}
    /\ Cardinality(Keys(all_messages)) = Len(all_messages)
    /\ \A e \in 1..Len(all_messages) :
         /\ all_messages[e].val.message_id = all_messages[e].key
         /\ all_messages[e].val = Get(processed[LastWithId(all_messages[e].key)].rec)

\* an id that occurred twice with different extracted fields
C4_Witness ==
    /\ pc = "done"
    /\ \E i, j \in 1..Len(processed) :
         /\ i < j
         /\ IsSome(Seen(i).msg_id) /\ Seen(i).msg_id = Seen(j).msg_id
         /\ processed[i].rec # processed[j].rec
         /\ Len(all_messages) = 2

-----------------------------------------------------------------------------
(* Timestamp scenarios (SpecTs)                                            *)

MaxTsLines == 3     \* lines of the input file, timestamp scenarios

\* "12/31/2023 11:00<U+202F>PM"
FullDec31 ==
    <<"1","2","/","3","1","/","2","0","2","3"," ","1","1",":","0","0","nnbsp","P","M">>

\* "2024-01-01 10:00:00": a full timestamp without a "/" token
FullIso ==
    <<"2","0","2","4","-","0","1","-","0","1"," ","1","0",":","0","0",":","0","0">>

\* "<b>01/01/2024</b> 12:00 AM"
FullJan1 ==
    <<"<","b",">","0","1","/","0","1","/","2","0","2","4","<","/","b",">"," ",
      "1","2",":","0","0"," ","A","M">>

\* "01/02/2024 13:00"
TitleJan2 == <<"0","1","/","0","2","/","2","0","2","4"," ","1","3",":","0","0">>

\* "11:05<U+00A0>PM"
ShortTime == <<"1","1",":","0","5","nbsp","P","M">>

TsContainers ==
    { [EmptyContainer EXCEPT !.msg_id = Some("1")],
      [EmptyContainer EXCEPT !.msg_id = Some("1"), !.full_ts = Some(FullDec31)],
      [EmptyContainer EXCEPT !.msg_id = Some("1"), !.full_ts = Some(FullIso)],
      [EmptyContainer EXCEPT !.msg_id = Some("1"), !.title_ts = Some(TitleJan2)],
      [EmptyContainer EXCEPT !.msg_id = Some("1"), !.short_ts = Some(ShortTime)],
      [EmptyContainer EXCEPT !.msg_id = Some("1"), !.short_ts = Some(<<>>)],
      [EmptyContainer EXCEPT !.full_ts = Some(FullJan1)] }

InitTs ==
    /\ infile \in FilesOver(LinesOver(TsContainers), MaxTsLines)
    /\ target_user_ids = <<"7">>
    /\ NoFilters
    /\ InitRun

SpecTs == InitTs /\ [][Next]_vars

ShortOnly(c) == ~IsSome(c.full_ts) /\ ~IsSome(c.title_ts) /\ IsSome(c.short_ts)

\* the short time of a container: the text of its short timestamp, without tags,
\* blanks normalised
ShortTimeOf(c) == normalize_spaces(strip_tags(Get(c.short_ts)))

\* the date token of a container matched by the full link-text pattern
DateTokenOf(c) == date_part(normalize_spaces(strip_tags(Get(c.full_ts))))

\* the container the remembered date comes from: the most recent one before i,
\* with a parsable id, matched by the full pattern with a date token; 0 if none
DateSource(i) ==
    LET Remembers(j) == /\ IsSome(Seen(j).msg_id) /\ IsSome(Seen(j).full_ts)
                        /\ IsSome(DateTokenOf(Seen(j)))
    IN  IF \E j \in 1..(i - 1) : Remembers(j)
        THEN CHOOSE j \in 1..(i - 1) :
                Remembers(j) /\ \A k \in (j + 1)..(i - 1) : ~Remembers(k)
        ELSE 0

\* C2 as stated: a container matched only by the short pattern gets
\* "<lastKnownDate> <shortTime>", and the bare short time if no date has been
\* remembered.
C2_ShortCompletion_Original ==
    \A i \in 1..Len(processed) :
        (IsSome(processed[i].rec) /\ ShortOnly(Seen(i))) =>
            Get(processed[i].rec).timestamp =
                IF DateSource(i) > 0
                THEN Get(DateTokenOf(Seen(DateSource(i)))) \o <<" ">> \o ShortTimeOf(Seen(i))
                ELSE ShortTimeOf(Seen(i))

\* C2 (amended): a container matched only by the short pattern gets
\* "<lastKnownDate> <shortTime>"; if no date has been remembered it gets the bare
\* short time, and the sentinel "UNKNOWN_TIMESTAMP" when that short time is empty.
C2_ShortCompletion ==
    \A i \in 1..Len(processed) :
        (IsSome(processed[i].rec) /\ ShortOnly(Seen(i))) =>
            Get(processed[i].rec).timestamp =
                IF DateSource(i) > 0
                THEN Get(DateTokenOf(Seen(DateSource(i)))) \o <<" ">> \o ShortTimeOf(Seen(i))
                ELSE IF Len(ShortTimeOf(Seen(i))) = 0 THEN UNKNOWN_TIMESTAMP
                ELSE ShortTimeOf(Seen(i))

\* a short-only container in the second group completed to "12/31/2023 11:05 PM"
\* with the date of the first group, a full timestamp without date token between
C2_Witness ==
    /\ pc = "done"
    /\ Len(flushed) = 2
    /\ Len(processed) = 3
    /\ ShortOnly(Seen(3)) /\ DateSource(3) = 1
    /\ IsSome(Seen(2).full_ts) /\ IsSome(Seen(2).msg_id)
    /\ Lookup(all_messages, "1").timestamp =
         <<"1","2","/","3","1","/","2","0","2","3"," ","1","1",":","0","5"," ","P","M">>

-----------------------------------------------------------------------------
(* Filter scenarios (SpecFilter)                                           *)

MaxFilterLines == 2     \* lines of the input file, filter scenarios

\* "12/31/2023 11:00 PM"
TsBefore ==
    <<"1","2","/","3","1","/","2","0","2","3"," ","1","1",":","0","0"," ","P","M">>

\* "01/01/2024 12:00 AM"
TsAt ==
    <<"0","1","/","0","1","/","2","0","2","4"," ","1","2",":","0","0"," ","A","M">>

\* "01/01/2024": the MM/DD/YYYY form of the --date-from help text (line 735)
DateOnly == <<"0","1","/","0","1","/","2","0","2","4">>

\* "12/31/2023 11:30 PM"
ToDec31 ==
    <<"1","2","/","3","1","/","2","0","2","3"," ","1","1",":","3","0"," ","P","M">>

\* message "1" reads "Hi all", message "2" reads "yo"
ContentOf(id) == IF id = "1" THEN <<"H","i"," ","a","l","l">> ELSE <<"y","o">>

\* every container opens a run and is one of:
\*   dated 12/31/2023 11:00 PM, not a reply;
\*   dated 01/01/2024 12:00 AM, a reply to message 9 (not in the file);
\*   a reply to message 1, without timestamp (id 1) or with a short one (id 2).
\* Message 1 is written by user 7 or 8, message 2 by user 7.
FilterContainers ==
    LET Base(i, u) ==
            [EmptyContainer EXCEPT
                !.msg_id = Some(i),
                !.author = Some([id |-> u, name |-> IF u = "7" THEN <<"A","l">>
                                                    ELSE <<"B","o">>]),
                !.content_div = Some(ContentOf(i))]
    IN  UNION { { [Base(iu[1], iu[2]) EXCEPT !.full_ts = Some(TsBefore)],
                  [Base(iu[1], iu[2]) EXCEPT !.full_ts = Some(TsAt),
                                             !.reply_div = Some(Some("9"))],
                  [Base(iu[1], iu[2]) EXCEPT
                        !.short_ts = IF iu[1] = "1" THEN None ELSE Some(ShortTime),
                        !.reply_div = Some(Some("1"))] } :
                iu \in {<<"1", "7">>, <<"1", "8">>, <<"2", "7">>} }

\* line 27
lower_search_term(arg) == IF Truthy(arg) THEN Some(lower(Get(arg))) ELSE None

InitFilter ==
    /\ infile \in FilesOver({[marker |-> TRUE, conts |-> <<c>>] : c \in FilterContainers},
                            MaxFilterLines)
    /\ target_user_ids = <<"9", "7">>
    /\ date_from \in {None, Some(DateOnly), Some(TsAt)}
    /\ date_to \in {None, Some(ToDec31)}
    /\ \E arg \in {None, Some(<<"H","I">>)} : search_term = lower_search_term(arg)
    /\ exclude_replies \in BOOLEAN
    /\ InitRun

SpecFilter == InitFilter /\ [][Next]_vars

\* the three exclusion predicates, stated on a store record
ReplyExcluded(msg) == exclude_replies /\ IsSome(msg.reply_to_msg_id)

SearchExcluded(msg) ==
    Truthy(search_term) /\ ~Contains(Get(search_term), lower(msg.content))

Parseable(ts) == IsSome(parse_timestamp(ts))

DateExcluded(msg) ==
    /\ Parseable(msg.timestamp)
    /\ \/ /\ Truthy(date_from) /\ Parseable(Get(date_from))
          /\ DtLess(Get(parse_timestamp(msg.timestamp)), Get(parse_timestamp(Get(date_from))))
       \/ /\ Truthy(date_to) /\ Parseable(Get(date_to))
          /\ DtLess(Get(parse_timestamp(Get(date_to))), Get(parse_timestamp(msg.timestamp)))

InBundle(b, id) == \E k \in 1..Len(b.messages) : b.messages[k].message_id = id

\* the outcome run() reports for a user is "no data" exactly when no message of
\* the user is included
C7_NoDataOutcome ==
    \A i \in 1..Len(outcomes) :
        (Len(outcomes[i].messages) = 0) <=> (outcomes[i].result = "no data")

\* C7: a target user without included messages is reported as "no data", not as
\* a bundle with an empty message list, and the run goes on to the other users.
C7_NoDataDistinct ==
    /\ C7_NoDataOutcome
    /\ pc = "done" => Len(outcomes) = Len(target_user_ids)

Jan1Midnight ==
    [year |-> 2024, month |-> 1, day |-> 1, hour |-> 0, minute |-> 0, second |-> 0]

\* C8: with date-from "01/01/2024", no bundle holds a message whose parsed
\* timestamp is before 01/01/2024 00:00, and a message at exactly that time is in
\* its author's bundle unless another predicate excludes it.
C8_DateFromInclusive ==
    (date_from = Some(DateOnly) /\ pc = "done") =>
        \A b \in 1..Len(user_data) :
            /\ \A k \in 1..Len(user_data[b].val.messages) :
                 LET ts == user_data[b].val.messages[k].timestamp
                 IN  Parseable(ts) => ~DtLess(Get(parse_timestamp(ts)), Jan1Midnight)
            /\ \A e \in 1..Len(all_messages) :
                 LET msg == all_messages[e].val
                 IN  ( /\ msg.user_id = user_data[b].key
                       /\ parse_timestamp(msg.timestamp) = Some(Jan1Midnight)
                       /\ ~ReplyExcluded(msg) /\ ~SearchExcluded(msg)
                       /\ ~Truthy(date_to) )
                     => InBundle(user_data[b].val, all_messages[e].key)

\* C9: a message whose timestamp matches none of the formats is in its author's
\* bundle whatever date-from and date-to are, unless exclude-replies or the
\* search term excludes it.
C9_UnparseablePassesDates ==
    \A b \in 1..Len(user_data) :
        \A e \in 1..Len(all_messages) :
            LET msg == all_messages[e].val
            IN  ( /\ msg.user_id = user_data[b].key
                  /\ ~Parseable(msg.timestamp)
                  /\ ~ReplyExcluded(msg) /\ ~SearchExcluded(msg) )
                => InBundle(user_data[b].val, all_messages[e].key)

\* both date filters parse, user 7 wrote a dated message that they exclude and a
\* message with the sentinel timestamp, and only the latter is in the bundle
C9_Witness ==
    /\ pc = "done"
    /\ Truthy(date_from) /\ Parseable(Get(date_from))
    /\ Truthy(date_to) /\ Parseable(Get(date_to))
    /\ Len(all_messages) = 2
    /\ \A e \in 1..2 : all_messages[e].val.user_id = "7"
    /\ \E e \in 1..2 : DateExcluded(all_messages[e].val)
    /\ Len(Lookup(user_data, "7").messages) = 1
    /\ Lookup(user_data, "7").messages[1].timestamp = UNKNOWN_TIMESTAMP

\* the store entries a user's bundle has to hold, in store order
IncludedOf(u) ==
    LET Keep(e) == /\ e.val.user_id = u
                   /\ ~ReplyExcluded(e.val) /\ ~SearchExcluded(e.val)
                   /\ ~DateExcluded(e.val)
    IN  SelectSeq(all_messages, Keep)

\* C10: once pass 2 is over every target user has a bundle; a bundle's messages
\* are the store records of that author that pass the three predicates, in store
\* order; with exclude-replies set none of them has a reply target.
C10_BundleIsFilteredStore ==
    /\ pc \in {"pass3", "export", "done"} =>
         \A i \in 1..Len(target_user_ids) : HasKey(user_data, target_user_ids[i])
    /\ \A b \in 1..Len(user_data) :
         LET msgs == user_data[b].val.messages
             inc == IncludedOf(user_data[b].key)
         IN  /\ Len(msgs) = Len(inc)
             /\ \A k \in 1..Len(msgs) :
                  /\ msgs[k].message_id = inc[k].key
                  /\ msgs[k].timestamp = inc[k].val.timestamp
                  /\ msgs[k].content = inc[k].val.content
                  /\ msgs[k].reply_to_msg_id = inc[k].val.reply_to_msg_id
                  /\ exclude_replies => ~IsSome(msgs[k].reply_to_msg_id)

\* exclude-replies is set, the store holds a reply to a message that is not in
\* the store and a non-reply of the same author, and the bundle holds the latter
C10_Witness ==
    /\ pc = "done"
    /\ exclude_replies
    /\ Len(all_messages) = 2
    /\ \A e \in 1..2 : all_messages[e].val.user_id = "7"
    /\ \E e \in 1..2 : /\ IsSome(all_messages[e].val.reply_to_msg_id)
                       /\ ~HasKey(all_messages, Get(all_messages[e].val.reply_to_msg_id))
    /\ Len(Lookup(user_data, "7").messages) = 1

-----------------------------------------------------------------------------
(* The reply-chain walk on arbitrary stores (SpecChain)                    *)

MaxChainIds == 3    \* message ids a store of the chain scenarios can hold

ChainIds == {ToString(i) : i \in 1..MaxChainIds}

\* an id no store of the chain scenarios holds
AbsentId == "0"

\* a stored record with the given id and reply target
ChainRecord(id, reply) ==
    [ user_id |-> "7", username |-> <<"A","l">>, color |-> None,
      content |-> <<"y","o">>, timestamp |-> UNKNOWN_TIMESTAMP,
      reply_to_msg_id |-> reply, message_id |-> id ]

\* the store that holds the ids of the domain of replies, in increasing order
RECURSIVE StoreOf(_, _)
StoreOf(replies, i) ==
    IF i > MaxChainIds THEN <<>>
    ELSE (IF ToString(i) \in DOMAIN replies
          THEN <<[key |-> ToString(i),
                  val |-> ChainRecord(ToString(i), replies[ToString(i)])]>>
          ELSE <<>>) \o StoreOf(replies, i + 1)

\* every reply graph over a subset of ChainIds: a reply target is absent, an id
\* of ChainIds (in the store or not) or AbsentId, so cycles occur
ChainStores ==
    UNION { { StoreOf(replies, 1) :
                replies \in [ids -> {None} \cup {Some(t) : t \in ChainIds \cup {AbsentId}}] } :
            ids \in SUBSET ChainIds }

\* build_reply_chain_ids(msg_id) has been called (lines 299-301)
InitChain ==
    /\ all_messages \in ChainStores
    /\ msg_id \in ChainIds \cup {AbsentId}
    /\ chain = <<>>
    /\ current_id = Some(msg_id)
    /\ depth = 0
    /\ chain_pc = "loop"
    /\ infile = <<>>
    /\ pos = 0
    /\ target_user_ids = <<"7">>
    /\ NoFilters
    /\ last_full_date = None
    /\ prev_author_id = None
    /\ prev_author_name = None
    /\ prev_author_color = None
    /\ group_buf = <<>>
    /\ in_group = FALSE
    /\ groups_seen = 0
    /\ containers_seen = 0
    /\ user_data = <<>>
    /\ statistics = <<>>
    /\ pc = "pass2"
    /\ ui = 1
    /\ outcomes = <<>>
    /\ flushed = <<>>
    /\ processed = <<>>

\* the walk is sequential code: it keeps running until it returns
SpecChain == InitChain /\ [][NextChain]_vars /\ WF_vars(NextChain)

ReplyOf(id) == Lookup(all_messages, id).reply_to_msg_id

\* the start id lies on a cycle A -> B -> A of two stored ids
TwoCycle ==
    /\ HasKey(all_messages, msg_id)
    /\ IsSome(ReplyOf(msg_id))
    /\ Get(ReplyOf(msg_id)) # msg_id
    /\ HasKey(all_messages, Get(ReplyOf(msg_id)))
    /\ ReplyOf(Get(ReplyOf(msg_id))) = Some(msg_id)

\* C5: on every store, cyclic or not, and every start id the walk returns, the
\* chain never holds more than max_depth ids, and on a cycle A -> B -> A of
\* stored ids the returned chain holds exactly max_depth ids.
C5_WalkTerminatesWithinDepth ==
    /\ <>(chain_pc = "returned")
    /\ [](Len(chain) <= max_depth /\ depth = Len(chain))
    /\ []((chain_pc = "returned" /\ TwoCycle) => Len(chain) = max_depth)

\* the walk has returned max_depth ids from a two-cycle
C5_Witness ==
    /\ chain_pc = "returned"
    /\ TwoCycle
    /\ Len(chain) = max_depth
    /\ chain[max_depth] = msg_id

\* C6: the returned chain is empty exactly when the start id is not in the
\* store; otherwise it starts with the start id, each later element is the reply
\* target of the one before, every element is in the store, and it is shorter
\* than max_depth only if its last element has no reply target or one that is
\* not in the store.
C6_ChainNearestFirst ==
    chain_pc = "returned" =>
        /\ (chain = <<>>) <=> ~HasKey(all_messages, msg_id)
        /\ chain # <<>> =>
             /\ chain[1] = msg_id
             /\ \A i \in 1..Len(chain) : HasKey(all_messages, chain[i])
             /\ \A i \in 1..(Len(chain) - 1) : ReplyOf(chain[i]) = Some(chain[i + 1])
             /\ Len(chain) < max_depth =>
                  \/ ~IsSome(ReplyOf(Last(chain)))
                  \/ ~HasKey(all_messages, Get(ReplyOf(Last(chain))))

\* a chain of three different ids that ends at a reply target not in the store
C6_Witness ==
    /\ chain_pc = "returned"
    /\ Len(chain) = 3
    /\ chain[1] # chain[2] /\ chain[2] # chain[3] /\ chain[1] # chain[3]
    /\ IsSome(ReplyOf(chain[3]))
    /\ ~HasKey(all_messages, Get(ReplyOf(chain[3])))

-----------------------------------------------------------------------------
(* Reply scenarios (SpecReply)                                             *)

MaxReplyLines == 3      \* lines of the input file, reply scenarios

\* the reply targets a container of the reply scenarios can name; message 9 is
\* in no file
ReplyTargets == {None, Some("1"), Some("2"), Some("9")}

\* the container of message i, written by user u, which is a reply to r (one
\* of ReplyTargets) or no reply
ReplyContainer(i, u, r) ==
    [EmptyContainer EXCEPT
        !.msg_id = Some(ToString(i)),
        !.author = Some([id |-> u, name |-> IF u = "7" THEN <<"A","l">> ELSE <<"B","o">>]),
        !.reply_div = IF IsSome(r) THEN Some(r) ELSE None,
        !.content_div = Some(ContentOf(ToString(i)))]

ReplyFile(f) ==
    [i \in DOMAIN f |-> [marker |-> TRUE,
                       conts |-> <<ReplyContainer(i, f[i][1], f[i][2])>>]]

InitReply ==
    /\ \E k \in 0..MaxReplyLines : \E f \in [1..k -> {"7", "8"} \X ReplyTargets] : infile = ReplyFile(f)
    /\ target_user_ids = <<"7", "8">>
    /\ date_from = None
    /\ date_to = None
    /\ \E arg \in {None, Some(<<"H","I">>)} : search_term = lower_search_term(arg)
    /\ exclude_replies = FALSE
    /\ InitRun

SpecReply == InitReply /\ [][Next]_vars

\* the store record of the reply target of a bundle message
TargetOf(m) == Lookup(all_messages, Get(m.reply_to_msg_id))

Resolvable(m) ==
    IsSome(m.reply_to_msg_id) /\ HasKey(all_messages, Get(m.reply_to_msg_id))

\* the positions of the bundle's messages that reply to a stored message of user v
RepliesTo(b, v) ==
    {k \in 1..Len(b.messages) :
        Resolvable(b.messages[k]) /\ TargetOf(b.messages[k]).user_id = v}

RECURSIVE SumCounts(_)
SumCounts(d) == IF Len(d) = 0 THEN 0 ELSE d[1].val.count + SumCounts(Tail(d))

\* C11: in every bundle the replied-to map has no entry for the bundle's own
\* user; the count under another user is the number of the bundle's messages
\* whose reply target is in the store and written by that user, so the counts sum
\* to the number of included messages with a stored reply target of another
\* user; a message whose reply target is not in the store has an empty reply
\* chain and adds nothing.
C11_RepliedToCounts ==
    \A e \in 1..Len(user_data) :
        LET u == user_data[e].key
            b == user_data[e].val
            map == b.replied_to_users
        IN  /\ ~HasKey(map, u)
            /\ Cardinality(Keys(map)) = Len(map)
            /\ \A i \in 1..Len(map) :
                 /\ map[i].val.count = Cardinality(RepliesTo(b, map[i].key))
                 /\ map[i].val.count > 0
            /\ SumCounts(map) =
                 Cardinality({k \in 1..Len(b.messages) :
                                Resolvable(b.messages[k])
                                /\ TargetOf(b.messages[k]).user_id # u})
            /\ \A k \in 1..Len(b.messages) :
                 /\ ~Resolvable(b.messages[k]) => b.messages[k].reply_chain_ids = <<>>
                 /\ Resolvable(b.messages[k]) =>
                      /\ Len(b.messages[k].reply_chain_ids) > 0
                      /\ b.messages[k].reply_chain_ids[1] = Get(b.messages[k].reply_to_msg_id)
                      /\ TargetOf(b.messages[k]).user_id # u =>
                           HasKey(map, TargetOf(b.messages[k]).user_id)

\* user 7's bundle holds a reply to the user's own message and a reply to a
\* message of user 8, and its map counts one reply, to user 8; user 8's only
\* message replies to message 9, which is not in the store, and its map is empty
C11_Witness ==
    /\ pc = "done"
    /\ LET b == Lookup(user_data, "7")
           c == Lookup(user_data, "8")
       IN  /\ Len(b.messages) = 2
           /\ \E k \in 1..2 : Resolvable(b.messages[k]) /\ TargetOf(b.messages[k]).user_id = "7"
           /\ Keys(b.replied_to_users) = {"8"}
           /\ Lookup(b.replied_to_users, "8").count = 1
           /\ Len(c.messages) = 1
           /\ IsSome(c.messages[1].reply_to_msg_id)
           /\ ~Resolvable(c.messages[1])
           /\ c.messages[1].reply_chain_ids = <<>>
           /\ c.replied_to_users = <<>>

-----------------------------------------------------------------------------
(* Word-count scenarios (SpecWords)                                        *)

MaxWordLines == 3       \* lines of the input file, word-count scenarios

HelloWorld == <<"h","e","l","l","o"," ","w","o","r","l","d">>

\* "[ok] fine": message text that starts with a bracket
BracketText == <<"[","o","k","]"," ","f","i","n","e">>

\* "cdn/a.png?ex=1"
HrefAPng == <<"c","d","n","/","a",".","p","n","g","?","e","x","=","1">>

\* the content of a container: text, text that starts with "[", an attachment
\* without text, an image without text
WordContents ==
    { [EmptyContainer EXCEPT !.content_div = Some(HelloWorld)],
      [EmptyContainer EXCEPT !.inner_span = Some(BracketText)],
      [EmptyContainer EXCEPT !.content_div = Some(<<" ">>), !.attachment = TRUE,
                             !.href = Some(HrefAPng)],
      [EmptyContainer EXCEPT !.img_alt = Some(<<"o","k">>)] }

\* line i holds the container of message i, written by user 7 or 8
WordFile(f) ==
    [i \in DOMAIN f |->
         [marker |-> TRUE,
          conts |-> <<[f[i][2] EXCEPT
                         !.msg_id = Some(ToString(i)),
                         !.author = Some([id |-> f[i][1], name |-> <<"A","l">>])]>>]]

InitWords ==
    /\ \E k \in 0..MaxWordLines : \E f \in [1..k -> {"7", "8"} \X WordContents] : infile = WordFile(f)
    /\ target_user_ids = <<"7", "8">>
    /\ NoFilters
    /\ InitRun

SpecWords == InitWords /\ [][Next]_vars

\* the content of a container is bracketed placeholder content: it has no text
\* of its own, and "[Attachment...]" or "[Image/Emoji: ...]" stands in for it
IsPlaceholder(cont) ==
    LET content_raw == IF IsSome(cont.inner_span) THEN Get(cont.inner_span)
                       ELSE IF IsSome(cont.content_div) THEN Get(cont.content_div)
                       ELSE <<>>
    IN  /\ Len(strip(strip_tags(content_raw))) = 0
        /\ cont.attachment \/ IsSome(cont.img_alt)

\* the number of words of the bundle messages from position k on whose content
\* is not placeholder content
RECURSIVE WordsFrom(_, _)
WordsFrom(messages, k) ==
    IF k > Len(messages) THEN 0
    ELSE (IF IsPlaceholder(Seen(LastWithId(messages[k].message_id))) THEN 0
          ELSE Len(split(messages[k].content)))
         + WordsFrom(messages, k + 1)

\* C12: for every user with an included message, total_words is the number of
\* words of the included messages whose content is not bracketed placeholder
\* content, and avg_message_length is total_words divided by the number of all
\* included messages.
C12_WordsSkipPlaceholders ==
    \A e \in 1..Len(statistics) :
        LET messages == Lookup(user_data, statistics[e].key).messages
            st == statistics[e].val
        IN  /\ Len(messages) > 0
            /\ st.total_words = WordsFrom(messages, 1)
            /\ st.avg_message_length.num * Len(messages) =
                 st.total_words * st.avg_message_length.den

\* the scenario of the claim: "hello world" and "[Attachment: a.png]" give
\* total_words = 2 and avg_message_length = 1.0
C12_Scenario ==
    \A e \in 1..Len(statistics) :
        LET messages == Lookup(user_data, statistics[e].key).messages
        IN  ( /\ Len(messages) = 2
              /\ messages[1].content = HelloWorld
              /\ messages[2].content = AttachmentPrefix \o <<":"," ","a",".","p","n","g","]">> )
            => /\ statistics[e].val.total_words = 2
               /\ statistics[e].val.avg_message_length = [num |-> 1, den |-> 1]

C12_ScenarioReached ==
    /\ pc = "done"
    /\ HasKey(statistics, "7")
    /\ LET messages == Lookup(user_data, "7").messages
       IN  /\ Len(messages) = 2
           /\ messages[1].content = HelloWorld
           /\ messages[2].content = AttachmentPrefix \o <<":"," ","a",".","p","n","g","]">>

-----------------------------------------------------------------------------
(* Skipped-container scenarios (SpecSkip)                                  *)

MaxSkipLines == 3       \* lines of the input file, skipped-container scenarios

\* "red"
Red == <<"r","e","d">>

\* what a container of the skip scenarios carries besides its opening marker:
\* nothing, an author marker (with or without color), a full timestamp, a short
\* timestamp
SkipKinds ==
    { EmptyContainer,
      [EmptyContainer EXCEPT !.author = Some([id |-> "7", name |-> NameAl]), !.color = Some(Red)],
      [EmptyContainer EXCEPT !.author = Some([id |-> "8", name |-> <<>>])],
      [EmptyContainer EXCEPT !.full_ts = Some(FullDec31)],
      [EmptyContainer EXCEPT !.full_ts = Some(FullJan1)],
      [EmptyContainer EXCEPT !.short_ts = Some(ShortTime)] }

\* every line holds one container, whose opening marker has the numeric id i
\* on line i or none that message_id_re can parse; the odd lines start a group
SkipFile(f) ==
    [i \in DOMAIN f |->
         [marker |-> (i % 2 = 1),
          conts |-> <<[f[i][1] EXCEPT
                         !.msg_id = IF f[i][2] THEN Some(ToString(i)) ELSE None]>>]]

InitSkip ==
    /\ \E k \in 0..MaxSkipLines : \E f \in [1..k -> SkipKinds \X BOOLEAN] : infile = SkipFile(f)
    /\ target_user_ids = <<"7">>
    /\ NoFilters
    /\ InitRun

SpecSkip == InitSkip /\ [][Next]_vars

HasId(cont) == IsSome(cont.msg_id)

\* the scan state before the first container
ScanState0 ==
    [ last_full_date |-> None, prev_author_id |-> None, prev_author_name |-> None,
      prev_author_color |-> None, groups_seen |-> 0, containers_seen |-> 0,
      all_messages |-> <<>>, flushed |-> <<>>, processed |-> <<>> ]

\* the containers processed so far, and those of them with a parsable id
ProcessedContainers == [i \in 1..Len(processed) |-> Seen(i)]

\* C13: a container without parsable id gets no record, and processing one in
\* any scan state the program reaches changes neither the store nor
\* lastKnownDate, lastAuthorId, lastAuthorName, lastAuthorColor, whatever author
\* marker or timestamp it carries; the store and these four fields are at every
\* moment what processing only the containers with an id would have produced.
C13_SkippedLeavesNoTrace ==
    /\ \A i \in 1..Len(processed) : ~HasId(Seen(i)) => processed[i].rec = None
    /\ \A k \in SkipKinds :
         LET r == process_container(ScanState, k)
         IN  /\ r.all_messages = all_messages
             /\ r.last_full_date = last_full_date
             /\ r.prev_author_id = prev_author_id
             /\ r.prev_author_name = prev_author_name
             /\ r.prev_author_color = prev_author_color
    /\ LET r == process_all(ScanState0, SelectSeq(ProcessedContainers, HasId))
       IN  /\ r.all_messages = all_messages
           /\ r.last_full_date = last_full_date
           /\ r.prev_author_id = prev_author_id
           /\ r.prev_author_name = prev_author_name
           /\ r.prev_author_color = prev_author_color

\* message 1 opens a run of user 7, the second container has no id and carries
\* the author marker of user 8, and message 3, without marker, is stored as
\* written by user 7
C13_Witness ==
    /\ pc = "done"
    /\ Len(processed) = 3
    /\ HasId(Seen(1)) /\ IsSome(Seen(1).author)
    /\ ~HasId(Seen(2)) /\ IsSome(Seen(2).author)
    /\ Get(Seen(2).author).id = "8"
    /\ HasId(Seen(3)) /\ ~IsSome(Seen(3).author)
    /\ Keys(all_messages) = {"1", "3"}
    /\ Lookup(all_messages, "3").user_id = "7"
    /\ prev_author_id = Some("7")

\* a container without id carries the full timestamp of 01/01/2024 and the short
\* timestamp after it is completed with the date remembered before: 12/31/2023
C13_WitnessDate ==
    /\ pc = "done"
    /\ Len(processed) = 3
    /\ HasId(Seen(1)) /\ Seen(1).full_ts = Some(FullDec31)
    /\ ~HasId(Seen(2)) /\ Seen(2).full_ts = Some(FullJan1)
    /\ HasId(Seen(3)) /\ IsSome(Seen(3).short_ts)
    /\ Lookup(all_messages, "3").timestamp =
         <<"1","2","/","3","1","/","2","0","2","3"," ","1","1",":","0","5"," ","P","M">>

-----------------------------------------------------------------------------
(* Timestamp-priority scenarios (SpecPriority)                             *)

MaxPriorityLines == 3   \* lines of the input file, timestamp-priority scenarios

\* the timestamp patterns that match in a container: none, each alone, and the
\* combinations; the link text of a full timestamp can be empty
PriorityKinds ==
    { EmptyContainer,
      [EmptyContainer EXCEPT !.full_ts = Some(FullDec31)],
      [EmptyContainer EXCEPT !.full_ts = Some(FullJan1), !.title_ts = Some(TitleJan2),
                             !.short_ts = Some(ShortTime)],
      [EmptyContainer EXCEPT !.full_ts = Some(<<>>), !.title_ts = Some(TitleJan2)],
      [EmptyContainer EXCEPT !.title_ts = Some(TitleJan2)],
      [EmptyContainer EXCEPT !.title_ts = Some(TitleJan2), !.short_ts = Some(ShortTime)],
      [EmptyContainer EXCEPT !.short_ts = Some(ShortTime)],
      [EmptyContainer EXCEPT !.full_ts = Some(FullDec31), !.short_ts = Some(ShortTime)] }

\* line i holds the container of message i; the odd lines start a group
PriorityFile(f) ==
    [i \in DOMAIN f |->
         [marker |-> (i % 2 = 1),
          conts |-> <<[f[i] EXCEPT !.msg_id = Some(ToString(i))]>>]]

InitPriority ==
    /\ \E k \in 0..MaxPriorityLines : \E f \in [1..k -> PriorityKinds] : infile = PriorityFile(f)
    /\ target_user_ids = <<"7">>
    /\ NoFilters
    /\ InitRun

SpecPriority == InitPriority /\ [][Next]_vars

\* the text a pattern found, as stored: without tags, blanks normalised
Shown(text) == normalize_spaces(strip_tags(text))

\* line 185: an empty timestamp is stored as the sentinel
OrSentinel(ts) == IF Len(ts) = 0 THEN UNKNOWN_TIMESTAMP ELSE ts

\* the date remembered when container i is processed, None if there is none
KnownDate(i) ==
    IF DateSource(i) = 0 THEN None ELSE DateTokenOf(Seen(DateSource(i)))

\* C14: the timestamp of every record comes from the first pattern that matches
\* its container in the order (a) link text, (b) title attribute, (c) short
\* timestamp, whatever lower patterns match as well; it is the sentinel when no
\* pattern matches; lastKnownDate is the date token of the most recent
\* container matched by (a), so no container matched only by (b) or (c), or by
\* none, changes it.
C14_TimestampPriority ==
    /\ \A i \in 1..Len(processed) :
         IsSome(processed[i].rec) =>
            LET c == Seen(i)
                ts == Get(processed[i].rec).timestamp
            IN  IF IsSome(c.full_ts) THEN ts = OrSentinel(Shown(Get(c.full_ts)))
                ELSE IF IsSome(c.title_ts) THEN ts = OrSentinel(Shown(Get(c.title_ts)))
                ELSE IF IsSome(c.short_ts)
                THEN ts = OrSentinel(IF IsSome(KnownDate(i))
                                     THEN Get(KnownDate(i)) \o <<" ">> \o ShortTimeOf(c)
                                     ELSE ShortTimeOf(c))
                ELSE ts = UNKNOWN_TIMESTAMP
    /\ last_full_date = KnownDate(Len(processed) + 1)

\* a container matched by all three patterns is stored with its link text
\* "01/01/2024 12:00 AM", the next, matched by title and short pattern, with its
\* title "01/02/2024 13:00", and the third, matched by the short pattern only,
\* is completed with the date of the first, which is still the remembered one
C14_Witness ==
    /\ pc = "done"
    /\ Len(processed) = 3
    /\ IsSome(Seen(1).full_ts) /\ IsSome(Seen(1).title_ts) /\ IsSome(Seen(1).short_ts)
    /\ Lookup(all_messages, "1").timestamp = TsAt
    /\ ~IsSome(Seen(2).full_ts) /\ IsSome(Seen(2).title_ts) /\ IsSome(Seen(2).short_ts)
    /\ Lookup(all_messages, "2").timestamp = TitleJan2
    /\ ShortOnly(Seen(3))
    /\ Lookup(all_messages, "3").timestamp =
         <<"0","1","/","0","1","/","2","0","2","4"," ","1","1",":","0","5"," ","P","M">>
    /\ last_full_date = Some(DateOnly)

-----------------------------------------------------------------------------
(* Buffer scenarios (SpecBuffer)                                           *)

MaxBufferLines == 4     \* lines of the input file, buffer scenarios

\* a line starts a group or not, and holds the start of a container or not
BufferLines ==
    [marker : BOOLEAN, conts : {<<>>, <<[EmptyContainer EXCEPT !.msg_id = Some("1")]>>}]

InitBuffer ==
    /\ infile \in FilesOver(BufferLines, MaxBufferLines)
    /\ target_user_ids = <<"7">>
    /\ NoFilters
    /\ InitRun

SpecBuffer == InitBuffer /\ [][Next]_vars

\* the positions of the group-marker lines among the lines read so far
MarkersRead == {i \in 1..pos : infile[i].marker}

LastMarkerRead == CHOOSE i \in MarkersRead : \A j \in MarkersRead : j <= i

\* the number of lines of the largest group of the file, 0 if it has no group
LargestGroup ==
    LET groups == GroupsOf(infile)
    IN  IF Len(groups) = 0 THEN 0
        ELSE Len(groups[CHOOSE g \in 1..Len(groups) :
                          \A h \in 1..Len(groups) : Len(groups[h]) <= Len(groups[g])])

\* C15: the buffer is empty until the first group-marker line has been read and
\* after that holds exactly the lines from the most recent group-marker line to
\* the line read last; so only its first line is a marker line (it holds lines
\* of one group) and it is never longer than the largest group of the file.
C15_BufferIsCurrentGroup ==
    /\ in_group = (MarkersRead # {})
    /\ group_buf = IF MarkersRead = {} THEN <<>> ELSE SubSeq(infile, LastMarkerRead, pos)
    /\ \A i \in 2..Len(group_buf) : ~group_buf[i].marker
    /\ Len(group_buf) <= LargestGroup

\* a line before the first marker line, then a group of two lines, then a marker
\* line: the group of two has been flushed and the buffer holds the last line only
C15_Witness ==
    /\ pc = "pass1"
    /\ pos = 4
    /\ ~infile[1].marker /\ infile[2].marker /\ ~infile[3].marker /\ infile[4].marker
    /\ flushed = <<SubSeq(infile, 2, 3)>>
    /\ group_buf = <<infile[4]>>

-----------------------------------------------------------------------------
(* Store-order scenarios (SpecOrder)                                       *)

MaxOrderLines == 3      \* lines of the input file, store-order scenarios

\* every line starts a group and holds one container, of message 1, 2 or 3,
\* with the author marker of user 7 or 8 or none
OrderContainers ==
    { [EmptyContainer EXCEPT !.msg_id = Some(i), !.author = a] :
        i \in {"1", "2", "3"},
        a \in {None, Some([id |-> "7", name |-> <<"A","l">>]),
               Some([id |-> "8", name |-> <<"B","o">>])} }

InitOrder ==
    /\ infile \in FilesOver({[marker |-> TRUE, conts |-> <<c>>] : c \in OrderContainers},
                            MaxOrderLines)
    /\ target_user_ids = <<"7", "8">>
    /\ NoFilters
    /\ InitRun

SpecOrder == InitOrder /\ [][Next]_vars

\* the position in the store's iteration order of the given id
StoreIndex(id) == CHOOSE e \in 1..Len(all_messages) : all_messages[e].key = id

\* the first container processed with the given id
FirstWithId(id) ==
    CHOOSE i \in 1..Len(processed) :
        /\ Seen(i).msg_id = Some(id)
        /\ \A j \in 1..(i - 1) : Seen(j).msg_id # Some(id)

\* C18: the store iterates over the ids in the order of their first occurrence
\* in the document, each with the fields of its last occurrence, so an id that
\* occurs again keeps its position; the messages of every bundle are in that
\* order.
C18_OrderOfFirstOccurrence ==
    /\ \A e, f \in 1..Len(all_messages) :
         e < f => FirstWithId(all_messages[e].key) < FirstWithId(all_messages[f].key)
    /\ \A e \in 1..Len(all_messages) :
         all_messages[e].val = Get(processed[LastWithId(all_messages[e].key)].rec)
    /\ \A b \in 1..Len(user_data) :
         LET msgs == user_data[b].val.messages
         IN  \A k, l \in 1..Len(msgs) :
                k < l => /\ StoreIndex(msgs[k].message_id) < StoreIndex(msgs[l].message_id)
                         /\ FirstWithId(msgs[k].message_id) < FirstWithId(msgs[l].message_id)

\* message 2 occurs first as a message of user 8, then message 1 of user 7,
\* then message 2 again in the run of user 7: the store and the bundle of user 7
\* hold message 2, with user 7 as its author, before message 1
C18_Witness ==
    /\ pc = "done"
    /\ Len(processed) = 3
    /\ Seen(1).msg_id = Some("2") /\ Seen(2).msg_id = Some("1") /\ Seen(3).msg_id = Some("2")
    /\ Get(processed[1].rec).user_id = "8"
    /\ Len(all_messages) = 2
    /\ all_messages[1].key = "2" /\ all_messages[1].val.user_id = "7"
    /\ all_messages[2].key = "1"
    /\ LET msgs == Lookup(user_data, "7").messages
       IN  Len(msgs) = 2 /\ msgs[1].message_id = "2" /\ msgs[2].message_id = "1"

-----------------------------------------------------------------------------
(* Histogram scenarios (SpecHist)                                          *)

MaxHistLines == 3       \* lines of the input file, histogram scenarios

\* "01/01/2024 23:30"
TsMon23 == <<"0","1","/","0","1","/","2","0","2","4"," ","2","3",":","3","0">>

\* the timestamp of a container: Sunday 12/31/2023 at 23 h, Monday 01/01/2024 at
\* 0 h, Monday 01/01/2024 at 23 h, or none
HistTimestamps == {None, Some(TsBefore), Some(TsAt), Some(TsMon23)}

\* line i holds the container of message i, written by user 7 or 8
HistFile(f) ==
    [i \in DOMAIN f |->
         [marker |-> TRUE,
          conts |-> <<[EmptyContainer EXCEPT
                         !.msg_id = Some(ToString(i)),
                         !.author = Some([id |-> f[i][1], name |-> <<"A","l">>]),
                         !.full_ts = f[i][2]]>>]]

InitHist ==
    /\ \E k \in 0..MaxHistLines : \E f \in [1..k -> {"7", "8"} \X HistTimestamps] : infile = HistFile(f)
    /\ target_user_ids = <<"7", "8">>
    /\ NoFilters
    /\ InitRun

SpecHist == InitHist /\ [][Next]_vars

HourOf(dt) == dt.hour

\* the parsed timestamps of the messages, None where no format matches
ParsedOf(msgs) == [k \in 1..Len(msgs) |-> parse_timestamp(msgs[k].timestamp)]

\* dist is the histogram of K over the parsed timestamps, and most is the key
\* of highest count that the iteration over the messages meets first, with its
\* count; None if no timestamp is parseable
ModeOf(parsed, K(_), dist, most) ==
    LET P == {k \in 1..Len(parsed) : IsSome(parsed[k])}
        key == [k \in P |-> K(Get(parsed[k]))]
        count == [k \in P |-> Cardinality({l \in P : key[l] = key[k]})]
        Highest(k) == \A l \in P : count[l] <= count[k]
    IN  /\ Keys(dist) = {key[k] : k \in P}
        /\ Cardinality(Keys(dist)) = Len(dist)
        /\ \A i \in 1..Len(dist) : \A k \in P : key[k] = dist[i].key => dist[i].val = count[k]
        /\ IF P = {} THEN most = None
           ELSE LET first == CHOOSE k \in P :
                                Highest(k) /\ \A l \in P : Highest(l) => k <= l
                IN  most = Some([key |-> key[first], val |-> count[first]])

\* C16: for every user with an included message the hour and day histograms
\* count the included messages with parseable timestamp, and the most-active
\* hour and day are keys of highest count, among tied keys the one the
\* iteration over the included messages meets first.
C16_MostActiveFirstOfHighest ==
    \A e \in 1..Len(statistics) :
        LET msgs == Lookup(user_data, statistics[e].key).messages
            st == statistics[e].val
            parsed == ParsedOf(msgs)
        IN  /\ ModeOf(parsed, HourOf, st.hour_distribution, st.most_active_hour)
            /\ ModeOf(parsed, day_name, st.day_distribution, st.most_active_day)

\* user 7 wrote on Monday at 0 h and then on Sunday at 23 h, once each, and a
\* message without timestamp: hour 0 and Monday, met first, are the most active
C16_Witness ==
    /\ pc = "done"
    /\ LET msgs == Lookup(user_data, "7").messages
           st == Lookup(statistics, "7")
       IN  /\ Len(msgs) = 3
           /\ msgs[1].timestamp = UNKNOWN_TIMESTAMP
           /\ msgs[2].timestamp = TsAt
           /\ msgs[3].timestamp = TsBefore
           /\ st.hour_distribution = <<[key |-> 0, val |-> 1], [key |-> 23, val |-> 1]>>
           /\ st.most_active_hour = Some([key |-> 0, val |-> 1])
           /\ st.most_active_day = Some([key |-> "Monday", val |-> 1])

\* user 7 wrote on Monday at 0 h, then on Sunday at 23 h, then on Monday at 23 h:
\* hour 23, met second, and Monday are the most active, with two messages each
C16_WitnessHighest ==
    /\ pc = "done"
    /\ LET msgs == Lookup(user_data, "7").messages
           st == Lookup(statistics, "7")
       IN  /\ Len(msgs) = 3
           /\ msgs[1].timestamp = TsAt
           /\ msgs[2].timestamp = TsBefore
           /\ msgs[3].timestamp = TsMon23
           /\ st.most_active_hour = Some([key |-> 23, val |-> 2])
           /\ st.most_active_day = Some([key |-> "Monday", val |-> 2])

-----------------------------------------------------------------------------
(* Color scenarios (SpecColor)                                             *)

MaxColorLines == 3      \* lines of the input file, color scenarios

\* "<U+00A0>blue": color_re takes every character up to a blank, ">", ";" or
\* a quote
Blue == <<"nbsp","b","l","u","e">>

\* a container has the author marker of user 7 or 8 or none, and a color
\* declaration (red, blue) or none
ColorKinds ==
    { [EmptyContainer EXCEPT !.author = a, !.color = c] :
        a \in {None, Some([id |-> "7", name |-> <<"A","l">>]),
               Some([id |-> "8", name |-> <<"B","o">>])},
        c \in {None, Some(Red), Some(Blue)} }

\* line i holds the container of message i; the odd lines start a group
ColorFile(f) ==
    [i \in DOMAIN f |->
         [marker |-> (i % 2 = 1),
          conts |-> <<[f[i] EXCEPT !.msg_id = Some(ToString(i))]>>]]

InitColor ==
    /\ \E k \in 0..MaxColorLines : \E f \in [1..k -> ColorKinds] : infile = ColorFile(f)
    /\ target_user_ids = <<"7">>
    /\ NoFilters
    /\ InitRun

SpecColor == InitColor /\ [][Next]_vars

\* a run head that declares a color
DeclaresColor(c) == IsSome(c.msg_id) /\ IsSome(c.author) /\ IsSome(c.color)

\* the color in force at container i: the one declared by the most recent run
\* head with a color declaration at or before i, None if there is none
ColorAt(i) ==
    IF \E j \in 1..i : DeclaresColor(Seen(j))
    THEN Some(strip(Get(Seen(CHOOSE j \in 1..i :
                                /\ DeclaresColor(Seen(j))
                                /\ \A k \in (j + 1)..i : ~DeclaresColor(Seen(k))).color)))
    ELSE None

\* C17: lastAuthorColor is the color declared by the most recent container with
\* both an author marker and a color declaration; each record carries the color
\* in force at its container and the author id of its run head, so a marker
\* without color changes the id and leaves the color, and a color declaration
\* without marker changes nothing.
C17_ColorOfLastDeclaringHead ==
    /\ prev_author_color = ColorAt(Len(processed))
    /\ \A i \in 1..Len(processed) :
         IsSome(processed[i].rec) =>
            /\ Get(processed[i].rec).color = ColorAt(i)
            /\ Get(processed[i].rec).user_id =
                 IF RunHead(i) = 0 THEN "" ELSE Get(Seen(RunHead(i)).author).id

\* user 7 opens a run and declares red; user 8 opens a run without color, and its
\* message is stored as written by user 8 in red; the third container declares
\* blue without author marker, and its record is red and of user 8 as well
C17_Witness ==
    /\ pc = "done"
    /\ Len(processed) = 3
    /\ Seen(1).author = Some([id |-> "7", name |-> <<"A","l">>])
    /\ Seen(1).color = Some(Red)
    /\ IsSome(Seen(2).author) /\ ~IsSome(Seen(2).color)
    /\ Lookup(all_messages, "2").user_id = "8"
    /\ Lookup(all_messages, "2").color = Some(Red)
    /\ ~IsSome(Seen(3).author) /\ Seen(3).color = Some(Blue)
    /\ Lookup(all_messages, "3").user_id = "8"
    /\ Lookup(all_messages, "3").color = Some(Red)
    /\ prev_author_color = Some(Red)

====
